---- MODULE Spec2Model ----
(***************************************************************************)
(* MUSE TTS (server.py): engine detection, the two synthesis paths, the    *)
(* playback dispatcher and the three tools, as a state machine.            *)
(*                                                                         *)
(* Strings that the code inspects character by character (voice ids,       *)
(* group names, prefixes) are sequences of one-character strings.  Speeds  *)
(* are fixed-point numbers in tenths (0.5 is 5, 2.0 is 20).  The outcome   *)
(* of every collaborator (an import, the pipeline, the WAV write, a player *)
(* process, the unlink) is an input of the tool call that consults it.     *)
(***************************************************************************)
EXTENDS Integers, Sequences, FiniteSets, TLC

(* Bounds of the model. *)
MaxTmp == 1        \* distinct temporary file names the OS can hand out
MaxChunks == 1
MaxRequests == 2
MaxNames == 2     \* audio chunks one portable synthesis yields at most

(***************************************************************************)
(* Voice registry                                                          *)
(***************************************************************************)
VOICES ==
  <<
     [group |-> <<"A", "m", "e", "r", "i", "c", "a", "n", " ", "E", "n", "g", "l", "i", "s", "h", " ", "(", "F", "e", "m", "a", "l", "e", ")">>,
      voices |-> <<
        <<<<"a", "f", "_", "a", "l", "l", "o", "y">>, "Alloy">>,
        <<<<"a", "f", "_", "a", "o", "e", "d", "e">>, "Aoede">>,
        <<<<"a", "f", "_", "b", "e", "l", "l", "a">>, "Bella">>,
        <<<<"a", "f", "_", "h", "e", "a", "r", "t">>, "Heart">>,
        <<<<"a", "f", "_", "j", "e", "s", "s", "i", "c", "a">>, "Jessica">>,
        <<<<"a", "f", "_", "k", "o", "r", "e">>, "Kore">>,
        <<<<"a", "f", "_", "n", "i", "c", "o", "l", "e">>, "Nicole">>,
        <<<<"a", "f", "_", "n", "o", "v", "a">>, "Nova">>,
        <<<<"a", "f", "_", "r", "i", "v", "e", "r">>, "River">>,
        <<<<"a", "f", "_", "s", "a", "r", "a", "h">>, "Sarah">>,
        <<<<"a", "f", "_", "s", "k", "y">>, "Sky">>
      >>],
     [group |-> <<"A", "m", "e", "r", "i", "c", "a", "n", " ", "E", "n", "g", "l", "i", "s", "h", " ", "(", "M", "a", "l", "e", ")">>,
      voices |-> <<
        <<<<"a", "m", "_", "a", "d", "a", "m">>, "Adam">>,
        <<<<"a", "m", "_", "e", "c", "h", "o">>, "Echo">>,
        <<<<"a", "m", "_", "e", "r", "i", "c">>, "Eric">>,
        <<<<"a", "m", "_", "f", "e", "n", "r", "i", "r">>, "Fenrir">>,
        <<<<"a", "m", "_", "l", "i", "a", "m">>, "Liam">>,
        <<<<"a", "m", "_", "m", "i", "c", "h", "a", "e", "l">>, "Michael">>,
        <<<<"a", "m", "_", "o", "n", "y", "x">>, "Onyx">>,
        <<<<"a", "m", "_", "p", "u", "c", "k">>, "Puck">>,
        <<<<"a", "m", "_", "s", "a", "n", "t", "a">>, "Santa">>
      >>],
     [group |-> <<"B", "r", "i", "t", "i", "s", "h", " ", "E", "n", "g", "l", "i", "s", "h", " ", "(", "F", "e", "m", "a", "l", "e", ")">>,
      voices |-> <<
        <<<<"b", "f", "_", "a", "l", "i", "c", "e">>, "Alice">>,
        <<<<"b", "f", "_", "e", "m", "m", "a">>, "Emma">>,
        <<<<"b", "f", "_", "i", "s", "a", "b", "e", "l", "l", "a">>, "Isabella">>,
        <<<<"b", "f", "_", "l", "i", "l", "y">>, "Lily">>
      >>],
     [group |-> <<"B", "r", "i", "t", "i", "s", "h", " ", "E", "n", "g", "l", "i", "s", "h", " ", "(", "M", "a", "l", "e", ")">>,
      voices |-> <<
        <<<<"b", "m", "_", "d", "a", "n", "i", "e", "l">>, "Daniel">>,
        <<<<"b", "m", "_", "f", "a", "b", "l", "e">>, "Fable">>,
        <<<<"b", "m", "_", "g", "e", "o", "r", "g", "e">>, "George">>,
        <<<<"b", "m", "_", "l", "e", "w", "i", "s">>, "Lewis">>
      >>],
     [group |-> <<"S", "p", "a", "n", "i", "s", "h">>,
      voices |-> <<
        <<<<"e", "f", "_", "d", "o", "r", "a">>, "Dora">>,
        <<<<"e", "m", "_", "a", "l", "e", "x">>, "Alex">>,
        <<<<"e", "m", "_", "s", "a", "n", "t", "a">>, "Santa">>
      >>],
     [group |-> <<"F", "r", "e", "n", "c", "h">>,
      voices |-> <<
        <<<<"f", "f", "_", "s", "i", "w", "i", "s">>, "Siwis">>
      >>],
     [group |-> <<"H", "i", "n", "d", "i">>,
      voices |-> <<
        <<<<"h", "f", "_", "a", "l", "p", "h", "a">>, "Alpha">>,
        <<<<"h", "f", "_", "b", "e", "t", "a">>, "Beta">>,
        <<<<"h", "m", "_", "o", "m", "e", "g", "a">>, "Omega">>,
        <<<<"h", "m", "_", "p", "s", "i">>, "Psi">>
      >>],
     [group |-> <<"I", "t", "a", "l", "i", "a", "n">>,
      voices |-> <<
        <<<<"i", "f", "_", "s", "a", "r", "a">>, "Sara">>,
        <<<<"i", "m", "_", "n", "i", "c", "o", "l", "a">>, "Nicola">>
      >>],
     [group |-> <<"J", "a", "p", "a", "n", "e", "s", "e">>,
      voices |-> <<
        <<<<"j", "f", "_", "a", "l", "p", "h", "a">>, "Alpha">>,
        <<<<"j", "f", "_", "g", "o", "n", "g", "i", "t", "s", "u", "n", "e">>, "Gongitsune">>,
        <<<<"j", "f", "_", "n", "e", "z", "u", "m", "i">>, "Nezumi">>,
        <<<<"j", "f", "_", "t", "e", "b", "u", "k", "u", "r", "o">>, "Tebukuro">>,
        <<<<"j", "m", "_", "k", "u", "m", "o">>, "Kumo">>
      >>],
     [group |-> <<"P", "o", "r", "t", "u", "g", "u", "e", "s", "e">>,
      voices |-> <<
        <<<<"p", "f", "_", "d", "o", "r", "a">>, "Dora">>,
        <<<<"p", "m", "_", "a", "l", "e", "x">>, "Alex">>,
        <<<<"p", "m", "_", "s", "a", "n", "t", "a">>, "Santa">>
      >>],
     [group |-> <<"M", "a", "n", "d", "a", "r", "i", "n", " ", "C", "h", "i", "n", "e", "s", "e">>,
      voices |-> <<
        <<<<"z", "f", "_", "x", "i", "a", "o", "b", "e", "i">>, "Xiaobei">>,
        <<<<"z", "f", "_", "x", "i", "a", "o", "n", "i">>, "Xiaoni">>,
        <<<<"z", "f", "_", "x", "i", "a", "o", "x", "i", "a", "o">>, "Xiaoxiao">>,
        <<<<"z", "f", "_", "x", "i", "a", "o", "y", "i">>, "Xiaoyi">>,
        <<<<"z", "m", "_", "y", "u", "n", "j", "i", "a", "n">>, "Yunjian">>,
        <<<<"z", "m", "_", "y", "u", "n", "x", "i">>, "Yunxi">>,
        <<<<"z", "m", "_", "y", "u", "n", "x", "i", "a">>, "Yunxia">>,
        <<<<"z", "m", "_", "y", "u", "n", "y", "a", "n", "g">>, "Yunyang">>
      >>]
  >>

LANG_CODES ==
  <<
     <<"a", <<<<"a", "f", "_">>, <<"a", "m", "_">>>>>>,
     <<"b", <<<<"b", "f", "_">>, <<"b", "m", "_">>>>>>,
     <<"e", <<<<"e", "f", "_">>, <<"e", "m", "_">>>>>>,
     <<"f", <<<<"f", "f", "_">>>>>>,
     <<"h", <<<<"h", "f", "_">>, <<"h", "m", "_">>>>>>,
     <<"i", <<<<"i", "f", "_">>, <<"i", "m", "_">>>>>>,
     <<"j", <<<<"j", "f", "_">>, <<"j", "m", "_">>>>>>,
     <<"p", <<<<"p", "f", "_">>, <<"p", "m", "_">>>>>>,
     <<"z", <<<<"z", "f", "_">>, <<"z", "m", "_">>>>>>
  >>

ALL_VOICE_IDS ==
  UNION {{VOICES[g].voices[i][1] : i \in DOMAIN VOICES[g].voices} : g \in DOMAIN VOICES}

startswith(s, p) == Len(s) >= Len(p) /\ SubSeq(s, 1, Len(p)) = p

RECURSIVE lang_code_from(_, _)
lang_code_from(voice_id, i) ==
  IF i > Len(LANG_CODES) THEN "a"
  ELSE IF \E k \in DOMAIN LANG_CODES[i][2] : startswith(voice_id, LANG_CODES[i][2][k])
       THEN LANG_CODES[i][1]
       ELSE lang_code_from(voice_id, i + 1)

(* A lookup that never consults the prefix table. *)
get_lang_code_default(voice_id) == "a"

get_lang_code(voice_id) == lang_code_from(voice_id, 1)

(***************************************************************************)
(* Exceptions.  NoExc is a normal return.  Every class below derives from  *)
(* Exception; ImportError is the only one detect_engine handles, and       *)
(* FileNotFoundError the only one the player loop handles.                 *)
(***************************************************************************)
NoExc == "NoExc"
ExceptionClasses ==
  {"ImportError", "OSError", "RuntimeError", "FileNotFoundError",
   "PermissionError", "CalledProcessError"}
OSErrorClasses == {"OSError", "FileNotFoundError", "PermissionError"}

(***************************************************************************)
(* Audio playback                                                          *)
(***************************************************************************)
Systems == {"Darwin", "Windows", "Linux"}
LINUX_PLAYERS == <<"aplay", "paplay", "ffplay">>
PlayersOf(sys) ==
  IF sys = "Darwin" THEN {"afplay"}
  ELSE IF sys = "Windows" THEN {"powershell"}
  ELSE {LINUX_PLAYERS[i] : i \in DOMAIN LINUX_PLAYERS}

(* What running one player binary can do. *)
PlayerOutcomes == {"missing", "launchfail", "nonzero", "zero"}
PlayerWorlds(sys) == [PlayersOf(sys) -> PlayerOutcomes]

(* subprocess.run(cmd, check=True): the exception it raises, if any. *)
subprocess_run(cmd, w) ==
  CASE w[cmd] = "missing"    -> "FileNotFoundError"
    [] w[cmd] = "launchfail" -> "PermissionError"
    [] w[cmd] = "nonzero"    -> "CalledProcessError"
    [] OTHER                 -> NoExc

(* A player loop that moves on after any failure of a candidate. *)
loop_catches_all(e) == e \in ExceptionClasses

(* A player loop that also moves on after a non-zero exit. *)
loop_catches_exit(e) == e \in {"FileNotFoundError", "CalledProcessError"}

(* The handler of the player loop: which exceptions make it continue. *)
loop_catches(e) == e = "FileNotFoundError"

(* The candidates loop of the Linux branch from candidate i on: the        *)
(* commands run so far with what each did, and how the loop ends: "true"   *)
(* (return True), "false" (list exhausted, return False) or "exc" (an      *)
(* exception leaves the loop).                                             *)
RECURSIVE linux_loop(_, _)
linux_loop(i, w) ==
  IF i > Len(LINUX_PLAYERS)
  THEN [tried |-> <<>>, end |-> "false", exc |-> NoExc,
        log |-> <<"No audio player found">>]
  ELSE LET cmd == LINUX_PLAYERS[i]
           e   == subprocess_run(cmd, w)
       IN IF e = NoExc
          THEN [tried |-> <<[cmd |-> cmd, outcome |-> w[cmd]]>>, end |-> "true",
                exc |-> NoExc, log |-> <<>>]
          ELSE IF loop_catches(e)
          THEN LET r == linux_loop(i + 1, w)
               IN [r EXCEPT !.tried = <<[cmd |-> cmd, outcome |-> w[cmd]]>> \o @]
          ELSE [tried |-> <<[cmd |-> cmd, outcome |-> w[cmd]]>>, end |-> "exc",
                exc |-> e, log |-> <<>>]

(* An outer handler that only expects a non-zero exit. *)
play_catches_exit_only(e) == e = "CalledProcessError"

(* The outer handler of play_audio: `except Exception`. *)
play_catches(e) == e \in ExceptionClasses

(* The body of the try block of play_audio. *)
play_body(sys, w) ==
  IF sys = "Darwin" \/ sys = "Windows"
  THEN LET cmd == IF sys = "Darwin" THEN "afplay" ELSE "powershell"
           e   == subprocess_run(cmd, w)
       IN [tried |-> <<[cmd |-> cmd, outcome |-> w[cmd]]>>,
           end |-> IF e = NoExc THEN "true" ELSE "exc",
           exc |-> e, log |-> <<>>]
  ELSE linux_loop(1, w)

(* play_audio(filepath) on system sys when the players behave as w says.   *)
(* ret is the value returned; exc is the exception that escapes, if any.   *)
play_audio(sys, filepath, w) ==
  LET b == play_body(sys, w)
  IN [path  |-> filepath,
      tried |-> b.tried,
      ret   |-> b.end = "true",
      exc   |-> IF b.end = "exc" /\ ~play_catches(b.exc) THEN b.exc ELSE NoExc,
      log   |-> IF b.end = "exc" /\ play_catches(b.exc)
                THEN <<"playback error">> ELSE b.log]

(* The player processes that were actually started by a play_audio call. *)
Launched(p) == SelectSeq(p.tried, LAMBDA c : c.outcome \in {"nonzero", "zero"})

(***************************************************************************)
(* Imports.  A module that was imported once stays in sys.modules and      *)
(* every later import of it succeeds; a failed import leaves no entry.     *)
(***************************************************************************)
ImportOutcomes == {"present", "absent", "broken"}

(* The exception an import raises when the module is in state a. *)
import_exc(a) ==
  CASE a = "present" -> NoExc
    [] a = "absent"  -> "ImportError"
    [] OTHER         -> "RuntimeError"

(* `import m` with sys.modules = mods, when m (if not yet loaded) is in    *)
(* state a on this machine.                                                *)
import_module(m, mods, a) ==
  IF m \in mods THEN [exc |-> NoExc, mods |-> mods]
  ELSE IF a = "present" THEN [exc |-> NoExc, mods |-> mods \cup {m}]
  ELSE [exc |-> import_exc(a), mods |-> mods]

(* The module states an import of m can meet. *)
ImportChoices(m, mods) == IF m \in mods THEN {"present"} ELSE ImportOutcomes

(***************************************************************************)
(* Engine detection                                                        *)
(***************************************************************************)
NoneVal == "None"
Engines == {"mlx", "kokoro", "none"}

(* The handlers of detect_engine: `except ImportError`. *)
detect_catches(e) == e = "ImportError"

(* A detection that tries the portable backend first. *)
detect_probe_kokoro_first(eng, mods, env) ==
  LET i1 == import_module("kokoro", mods, env.kokoro)
      p1 == <<[module |-> "kokoro", exc |-> i1.exc]>>
  IN IF i1.exc = NoExc
     THEN [engine |-> "kokoro", ret |-> "kokoro", exc |-> NoExc,
           mods |-> i1.mods, probes |-> p1]
     ELSE [engine |-> eng, ret |-> NoneVal, exc |-> i1.exc,
           mods |-> i1.mods, probes |-> p1]

(* Lines 48-65 of detect_engine(), run with _engine = eng (None) and       *)
(* sys.modules = mods, when the two backends are in the states             *)
(* env.mlx_audio and env.kokoro.  probes: the imports attempted, in order. *)
detect_probe(eng, mods, env) ==
       LET i1 == import_module("mlx_audio", mods, env.mlx_audio)
           p1 == <<[module |-> "mlx_audio", exc |-> i1.exc]>>
       IN IF i1.exc = NoExc
          THEN [engine |-> "mlx", ret |-> "mlx", exc |-> NoExc,
                mods |-> i1.mods, probes |-> p1]
          ELSE IF ~detect_catches(i1.exc)
          THEN [engine |-> eng, ret |-> NoneVal, exc |-> i1.exc,
                mods |-> i1.mods, probes |-> p1]
          ELSE LET i2 == import_module("kokoro", i1.mods, env.kokoro)
                   p2 == p1 \o <<[module |-> "kokoro", exc |-> i2.exc]>>
               IN IF i2.exc = NoExc
                  THEN [engine |-> "kokoro", ret |-> "kokoro", exc |-> NoExc,
                        mods |-> i2.mods, probes |-> p2]
                  ELSE IF ~detect_catches(i2.exc)
                  THEN [engine |-> eng, ret |-> NoneVal, exc |-> i2.exc,
                        mods |-> i2.mods, probes |-> p2]
                  ELSE [engine |-> "none", ret |-> "none", exc |-> NoExc,
                        mods |-> i2.mods, probes |-> p2]

(* Detection that ignores the cached value and probes again. *)
detect_engine_reprobe(eng, mods, env) == detect_probe(NoneVal, mods, env)

(* Lines 45-46: the cached value is returned without probing. *)
detect_engine(eng, mods, env) ==
  IF eng # NoneVal
  THEN [engine |-> eng, ret |-> eng, exc |-> NoExc, mods |-> mods, probes |-> <<>>]
  ELSE detect_probe(eng, mods, env)

(* The environments a detect_engine call can meet: nothing is consulted    *)
(* once the engine is cached, and kokoro only when mlx_audio is absent.    *)
DetectEnvs(eng) ==
  IF eng # NoneVal
  THEN {[mlx_audio |-> "present", kokoro |-> "present"]}
  ELSE {[mlx_audio |-> a, kokoro |-> k] :
          a \in ImportOutcomes, k \in ImportOutcomes} \
       {[mlx_audio |-> a, kokoro |-> k] :
          a \in {"present", "broken"}, k \in {"absent", "broken"}}

(***************************************************************************)
(* Files.  The fast-native backend writes ./audio_000.wav in the working   *)
(* directory; the portable path writes a temporary file with a fresh name. *)
(***************************************************************************)
MLX_OUTPUT == [kind |-> "./audio_000.wav", n |-> 0]
TmpPaths == {[kind |-> "tmp", n |-> i] : i \in 1..MaxTmp}

(* A temporary-file creation that does not look at the existing files. *)
fresh_tmp_any(names, files) == names

(* The names NamedTemporaryFile(delete=False) can return (lines 270-272):  *)
(* it creates the file exclusively, so never the name of an existing file. *)
fresh_tmp(names, files) == names \ files

(***************************************************************************)
(* The effect of a call on the process: st is the process state on entry   *)
(* (engine, mods, pipelines, fs); the other fields record what the call    *)
(* did: result is the boolean a generate function returns, ret the value   *)
(* the tool returns, exc the exception that leaves the function, stage the *)
(* point it ended at.                                                      *)
(***************************************************************************)
Effect(st) ==
  [engine    |-> st.engine,
   mods      |-> st.mods,
   pipelines |-> st.pipelines,
   fs        |-> st.fs,
   result    |-> FALSE,
   exc       |-> NoExc,
   detected  |-> <<>>,
   probes    |-> <<>>,
   synth     |-> <<>>,
   play      |-> <<>>,
   created   |-> <<>>,
   unlink    |-> <<>>,
   log       |-> <<>>,
   stage     |-> "start",
   ret       |-> [kind |-> "none"]]

(***************************************************************************)
(* Fast-native synthesis                                                   *)
(***************************************************************************)
_generate_mlx(sys, text, voice, speed, e) ==
  LET req == [backend |-> "mlx", text |-> text, voice |-> voice,
              speed |-> speed, lang |-> "-", pipeline |-> 0, chunks |-> "n/a"]
  IN UNION {
       LET im == import_module("mlx_audio", e.mods, a)
       IN IF im.exc # NoExc
          THEN {[e EXCEPT !.exc = im.exc, !.stage = "import_mlx_audio"]}
          ELSE \* generate_audio raises, with or without having written
               {[e EXCEPT !.mods = im.mods, !.exc = "RuntimeError",
                          !.synth = <<req>>, !.fs = f, !.stage = "synthesis"]
                  : f \in {e.fs, e.fs \cup {MLX_OUTPUT}}}
               \cup
               \* generate_audio returns: play the fixed output file
               {LET p == play_audio(sys, MLX_OUTPUT, w)
                IN [e EXCEPT !.mods = im.mods, !.synth = <<req>>,
                             !.fs = e.fs \cup {MLX_OUTPUT},
                             !.play = <<p>>, !.log = p.log,
                             !.result = p.ret, !.exc = p.exc,
                             !.stage = "played"]
                  : w \in PlayerWorlds(sys)}
       : a \in ImportChoices("mlx_audio", e.mods)}

(***************************************************************************)
(* Portable synthesis                                                      *)
(***************************************************************************)
(* A cleanup that only tolerates a file that is already gone. *)
unlink_catches_missing_only(x) == x = "FileNotFoundError"

(* The handler around os.unlink: `except OSError`. *)
unlink_catches(x) == x \in OSErrorClasses

(* Lines 269-283: temp file, WAV write, playback, cleanup. *)
kokoro_deliver(sys, e) ==
  {[e EXCEPT !.exc = "OSError", !.stage = "mktemp"]}
  \cup
  UNION {
    LET made == [e EXCEPT !.fs = e.fs \cup {t}, !.created = <<t>>]
    IN {[made EXCEPT !.exc = "RuntimeError", !.stage = "write"]}
       \cup
       UNION {
         LET p == play_audio(sys, t, w)
             q == [made EXCEPT !.play = <<p>>, !.log = p.log]
         IN IF p.exc # NoExc
            THEN {[q EXCEPT !.exc = p.exc, !.stage = "play"]}
            ELSE {LET x == IF u = "ok" THEN NoExc ELSE "PermissionError"
                      r == [q EXCEPT !.unlink = <<[path |-> t, exc |-> x]>>,
                                     !.fs = IF x = NoExc THEN q.fs \ {t} ELSE q.fs]
                  IN IF x # NoExc /\ ~unlink_catches(x)
                     THEN [r EXCEPT !.exc = x, !.stage = "unlink"]
                     ELSE [r EXCEPT !.result = p.ret, !.stage = "played"]
                    : u \in {"ok", "fail"}}
         : w \in PlayerWorlds(sys)}
    : t \in fresh_tmp(TmpPaths, e.fs)}

(* An emptiness test that never fires. *)
no_chunks_never(n) == FALSE

(* Line 264: `not audio_chunks`, for a list of n chunks. *)
no_chunks(n) == n = 0

(* Lines 258-267: run the pipeline and collect its n chunks.  The call     *)
(* record keeps whether the finished list held any chunk ("zero" or        *)
(* "some"; "n/a" while the pipeline has not finished).                     *)
kokoro_synthesize(sys, req, e) ==
  {[e EXCEPT !.exc = "RuntimeError", !.synth = <<req>>, !.stage = "synthesis"]}
  \cup
  UNION {
    LET s == [e EXCEPT !.synth =
                <<[req EXCEPT !.chunks = IF n = 0 THEN "zero" ELSE "some"]>>]
    IN IF no_chunks(n)
       THEN {[s EXCEPT !.result = FALSE, !.stage = "empty"]}
       ELSE kokoro_deliver(sys, s)
    : n \in 0..MaxChunks}

(* A cache test that never finds an entry. *)
pipeline_cached_never(lang_code, pl) == FALSE

(* Line 253: `lang_code not in _kokoro_pipelines`, negated. *)
pipeline_cached(lang_code, pl) == lang_code \in DOMAIN pl

(* pipeline: the serial number of the pipeline object that is called. *)
_generate_kokoro(sys, text, voice, speed, e) ==
  LET lang_code == get_lang_code(voice)
      req == [backend |-> "kokoro", text |-> text, voice |-> voice,
              speed |-> speed, lang |-> lang_code, pipeline |-> 0,
              chunks |-> "n/a"]
      made == (lang_code :> Cardinality(DOMAIN e.pipelines) + 1) @@ e.pipelines
  IN UNION {
       LET i1 == import_module("soundfile", e.mods, a1)
       IN IF i1.exc # NoExc
          THEN {[e EXCEPT !.exc = i1.exc, !.stage = "import_soundfile"]}
          ELSE UNION {
            LET i2 == import_module("kokoro", i1.mods, a2)
                e2 == [e EXCEPT !.mods = i2.mods]
            IN IF i2.exc # NoExc
               THEN {[e2 EXCEPT !.exc = i2.exc, !.stage = "import_kokoro"]}
               ELSE IF pipeline_cached(lang_code, e.pipelines)
               THEN kokoro_synthesize(sys,
                      [req EXCEPT !.pipeline = e.pipelines[lang_code]], e2)
               ELSE {[e2 EXCEPT !.exc = "RuntimeError", !.stage = "construct"]}
                    \cup
                    kokoro_synthesize(sys,
                      [req EXCEPT !.pipeline = made[lang_code]],
                      [e2 EXCEPT !.pipelines = made])
            : a2 \in ImportChoices("kokoro", i1.mods)}
       : a1 \in ImportChoices("soundfile", e.mods)}

(***************************************************************************)
(* Orchestration                                                           *)
(***************************************************************************)
(* A dispatch that never takes the no-engine exit. *)
engine_missing_never(engine) == FALSE

(* Line 217: `engine == "none"`. *)
engine_missing(engine) == engine = "none"

(* The handler of generate_and_play: `except Exception`. *)
generate_catches(x) == x \in ExceptionClasses

generate_and_play(sys, text, voice, speed, e) ==
  UNION {
    LET d  == detect_engine(e.engine, e.mods, env)
        e1 == [e EXCEPT !.engine = d.engine, !.mods = d.mods,
                        !.probes = @ \o d.probes]
    IN IF d.exc # NoExc
       THEN {[e1 EXCEPT !.exc = d.exc, !.stage = "detect"]}
       ELSE LET e2 == [e1 EXCEPT !.detected = @ \o <<d.ret>>]
            IN IF engine_missing(d.ret)
               THEN {[e2 EXCEPT !.result = FALSE, !.stage = "no_engine",
                                !.log = <<"No TTS engine found">>]}
               ELSE {IF r.exc # NoExc /\ generate_catches(r.exc)
                     THEN [r EXCEPT !.exc = NoExc, !.result = FALSE,
                                    !.log = @ \o <<"MUSE TTS error">>]
                     ELSE r
                       : r \in IF d.ret = "mlx"
                               THEN _generate_mlx(sys, text, voice, speed, e2)
                               ELSE _generate_kokoro(sys, text, voice, speed, e2)}
    : env \in DetectEnvs(e.engine)}

(***************************************************************************)
(* Tools                                                                   *)
(***************************************************************************)
MIN_SPEED == 5
MAX_SPEED == 20
min2(a, b) == IF b < a THEN b ELSE a
max2(a, b) == IF b > a THEN b ELSE a

(* A clamp that forgets the lower limit. *)
clamp_speed_upper_only(speed) == min2(MAX_SPEED, speed)

(* Line 315: max(0.5, min(2.0, speed)). *)
clamp_speed(speed) == max2(MIN_SPEED, min2(MAX_SPEED, speed))

(* A voice resolution that ignores the default voice. *)
effective_voice_raw(voice, dv) == voice

(* Lines 309-310: `voice or KOKORO_VOICE`, `speed or KOKORO_SPEED`. *)
effective_voice(voice, dv) == IF voice = <<>> THEN dv ELSE voice
effective_speed(speed, ds) == IF speed = 0 THEN ds ELSE speed

(* Validation that accepts every voice id. *)
voice_is_known_any(v) == TRUE

(* Line 312: `voice not in ALL_VOICE_IDS`, negated. *)
voice_is_known(v) == v \in ALL_VOICE_IDS

(* A message that reports success whatever happened. *)
speak_result_always(success, text, v, s, engine) ==
  [kind |-> "spoke", text |-> text, voice |-> v, speed |-> s, engine |-> engine]

(* Lines 320-323: the message returned.  The texts of the model are        *)
(* shorter than 100 characters, so text[:100] is the text and no ellipsis  *)
(* is appended.                                                            *)
speak_result(success, text, v, s, engine) ==
  IF success
  THEN [kind |-> "spoke", text |-> text, voice |-> v, speed |-> s,
        engine |-> engine]
  ELSE [kind |-> "failed"]

(* muse_speak(text, voice, speed) with the defaults dv and ds. *)
muse_speak(sys, dv, ds, text, voice, speed, st) ==
  LET v == effective_voice(voice, dv)
      s == effective_speed(speed, ds)
      e == Effect(st)
  IN IF ~voice_is_known(v)
     THEN {[e EXCEPT !.stage = "unknown_voice",
                     !.ret = [kind |-> "unknown_voice", voice |-> v]]}
     ELSE UNION {
            IF g.exc # NoExc
            THEN {g}
            ELSE UNION {
                   LET d  == detect_engine(g.engine, g.mods, env)
                       g2 == [g EXCEPT !.engine = d.engine, !.mods = d.mods,
                                       !.probes = @ \o d.probes]
                   IN IF d.exc # NoExc
                      THEN {[g2 EXCEPT !.exc = d.exc, !.stage = "detect"]}
                      ELSE {[g2 EXCEPT
                               !.detected = @ \o <<d.ret>>,
                               !.ret = speak_result(g.result, text, v,
                                                    clamp_speed(s), d.ret)]}
                   : env \in DetectEnvs(g.engine)}
            : g \in generate_and_play(sys, text, v, clamp_speed(s), e)}

(* muse_check(): the status dictionary. *)
muse_check(sys, dv, ds, st) ==
  UNION {
    LET d == detect_engine(st.engine, st.mods, env)
        e == [Effect(st) EXCEPT !.engine = d.engine, !.mods = d.mods,
                                !.probes = d.probes]
        status == [engine |-> d.ret, platform |-> sys, voice |-> dv, speed |-> ds]
    IN IF d.exc # NoExc
       THEN {[e EXCEPT !.exc = d.exc, !.stage = "detect"]}
       ELSE {[e EXCEPT
                !.detected = <<d.ret>>,
                !.stage = "checked",
                !.ret = [kind |-> "status"] @@
                  (IF d.ret = "mlx"
                   THEN status @@ [status |-> "ready (mlx_audio - Apple Silicon)"]
                   ELSE IF d.ret = "kokoro"
                   THEN status @@ [status |-> "ready (kokoro PyTorch - cross-platform)"]
                   ELSE status @@ [status |-> "no engine found",
                                   help |-> "Install: pip install mlx_audio (Mac M-series) or pip install kokoro soundfile (any platform)"])]}
    : env \in DetectEnvs(st.engine)}

(***************************************************************************)
(* Voice listing                                                           *)
(***************************************************************************)
UPPER == <<"A", "B", "C", "D", "E", "F", "G", "H", "I", "J", "K", "L", "M",
           "N", "O", "P", "Q", "R", "S", "T", "U", "V", "W", "X", "Y", "Z">>
LOWER == <<"a", "b", "c", "d", "e", "f", "g", "h", "i", "j", "k", "l", "m",
           "n", "o", "p", "q", "r", "s", "t", "u", "v", "w", "x", "y", "z">>

lower_char(c) ==
  IF \E i \in DOMAIN UPPER : UPPER[i] = c
  THEN LOWER[CHOOSE i \in DOMAIN UPPER : UPPER[i] = c]
  ELSE c

(* A lower() that leaves its argument as it is. *)
lower_identity(s) == s

(* str.lower() *)
lower(s) == [i \in DOMAIN s |-> lower_char(s[i])]

(* `sub in s` for strings. *)
contains(s, sub) ==
  \E i \in 0..(Len(s) - Len(sub)) : SubSeq(s, i + 1, i + Len(sub)) = sub

(* Line 343: the group is skipped. *)
group_skipped(language, group_name) ==
  language # <<>> /\ ~contains(lower(group_name), lower(language))

(* One line of the listing. *)
Line(t, id, name, marker) == [t |-> t, id |-> id, name |-> name, marker |-> marker]

(* Lines 346-350: the lines of one group. *)
group_lines(g, dv) ==
  <<Line("group", g.group, "", FALSE)>>
  \o [i \in DOMAIN g.voices |->
        Line("voice", g.voices[i][1], g.voices[i][2], g.voices[i][1] = dv)]
  \o <<Line("blank", <<>>, "", FALSE)>>

(* Lines 342-350: the loop over the groups, from group k on. *)
RECURSIVE listing_from(_, _, _)
listing_from(k, language, dv) ==
  IF k > Len(VOICES) THEN <<>>
  ELSE (IF group_skipped(language, VOICES[k].group)
        THEN <<>> ELSE group_lines(VOICES[k], dv))
       \o listing_from(k + 1, language, dv)

(* muse_list_voices(language) with the default voice dv. *)
muse_list_voices(language, dv) ==
  LET lines == <<Line("header", dv, "", FALSE)>> \o listing_from(1, language, dv)
  IN IF Len(lines) <= 2
     THEN [kind |-> "no_match", language |-> language, lines |-> <<>>]
     ELSE [kind |-> "listing", language |-> language,
           lines |-> lines \o
             <<[t |-> "total", id |-> <<>>, name |-> "", marker |-> FALSE,
                voices |-> Cardinality(ALL_VOICE_IDS),
                languages |-> Len(VOICES)],
               [t |-> "hint_voice", id |-> <<>>, name |-> "", marker |-> FALSE,
                voices |-> 0, languages |-> 0],
               [t |-> "hint_speed", id |-> <<>>, name |-> "", marker |-> FALSE,
                voices |-> 0, languages |-> 0]>>]

(* The script's startup (lines 392-415) up to mcp.run(). *)
main(st) ==
  UNION {
    LET d == detect_engine(st.engine, st.mods, env)
        e == [Effect(st) EXCEPT !.engine = d.engine, !.mods = d.mods,
                                !.probes = d.probes]
    IN IF d.exc # NoExc
       THEN {[e EXCEPT !.exc = d.exc, !.stage = "detect"]}
       ELSE {[e EXCEPT !.detected = <<d.ret>>, !.stage = "serving",
                       !.log = <<"banner">>]}
    : env \in DetectEnvs(st.engine)}

(***************************************************************************)
(* Inputs of the model                                                     *)
(***************************************************************************)
am_fenrir == <<"a", "m", "_", "f", "e", "n", "r", "i", "r">>
bf_emma   == <<"b", "f", "_", "e", "m", "m", "a">>
zz_nobody == <<"z", "z", "_", "n", "o", "b", "o", "d", "y">>

bx_foo == <<"b", "x", "_", "f", "o", "o">>
af_short == <<"a", "f">>
zf_only == <<"z", "f", "_">>
upper_af == <<"A", "F", "_", "b", "e", "l", "l", "a">>

(* Ids handed to the registry lookups: every registry id and some others. *)
LookupIds == ALL_VOICE_IDS \cup {<<>>, zz_nobody, bx_foo, af_short, zf_only, upper_af}

(* Filters handed to muse_list_voices. *)
Filters ==
  {<<>>,
   <<"m", "a", "n", "d", "a", "r", "i", "n">>,
   <<"M", "A", "N", "D", "A", "R", "I", "N">>,
   <<"B", "r", "i", "t", "i", "s", "h">>,
   <<"e", "n", "g", "l", "i", "s", "h">>,
   <<"m", "a", "l", "e">>,
   <<"(", "M">>,
   <<"x", "y", "z">>,
   <<"f", "r">>,
   <<"h", " ", "(">>,
   <<"p", "a", "n", "e", "s">>,
   <<"S", "p", "a", "n", "i", "s", "h", " ">>}

Texts == {"Hello world"}
RequestVoices == {<<>>, bf_emma, zz_nobody}
RequestSpeeds == {0, 1, 50}
DefaultVoices == {am_fenrir, zz_nobody}
DefaultSpeeds == {10, 30}

(***************************************************************************)
(* The process                                                             *)
(***************************************************************************)
VARIABLES
  _engine,            \* None, or the detected engine
  sys_modules,        \* the backend modules imported so far
  _kokoro_pipelines,  \* language code -> pipeline (its serial number)
  fs,                 \* the audio files that exist
  system,             \* platform.system()
  KOKORO_VOICE,       \* default voice, read at startup
  KOKORO_SPEED,       \* default speed, read at startup
  phase,              \* "running", or "crashed" when startup raised
  call,               \* the last call: tool, arguments, and what it did;
                      \* world is the players' behaviour handed to a direct
                      \* play_audio call
  requests,           \* overlapping speak requests: each one's position
  content             \* path -> the request whose audio the file holds

vars == <<_engine, sys_modules, _kokoro_pipelines, fs, system,
          KOKORO_VOICE, KOKORO_SPEED, phase, call, requests, content>>

NoWorld == [c \in {} |-> "missing"]

(* Overlapping requests. *)
Requests == 1..MaxRequests
OverlapPaths == {[kind |-> "tmp", n |-> i] : i \in 1..MaxNames}
NoPath == [kind |-> "none", n |-> 0]
NotYet == 0 - 1
Empty == 0
Idle == [pc |-> "idle", path |-> NoPath, heard |-> NotYet, removed |-> NotYet,
         alone |-> TRUE]
NoRequests == [r \in Requests |-> Idle]
NoContent == [p \in OverlapPaths \cup {MLX_OUTPUT} |-> Empty]

State ==
  [engine |-> _engine, mods |-> sys_modules,
   pipelines |-> _kokoro_pipelines, fs |-> fs]

Init ==
  /\ _engine = NoneVal
  /\ sys_modules = {}
  /\ _kokoro_pipelines = [c \in {} |-> 0]
  /\ fs = {}
  /\ system \in Systems
  /\ KOKORO_VOICE \in DefaultVoices
  /\ KOKORO_SPEED \in DefaultSpeeds
  /\ phase = "running"
  /\ requests = NoRequests
  /\ content = NoContent
  /\ call = [tool |-> "init", text |-> "", voice |-> <<>>, speed |-> 0,
             language |-> <<>>, world |-> NoWorld,
             did |-> Effect([engine |-> NoneVal, mods |-> {},
                             pipelines |-> [c \in {} |-> 0], fs |-> {}])]

(* The call (tool, arguments) happens and does d. *)
Apply(tool, text, voice, speed, d) ==
  /\ _engine' = d.engine
  /\ sys_modules' = d.mods
  /\ _kokoro_pipelines' = d.pipelines
  /\ fs' = d.fs
  /\ call' = [tool |-> tool, text |-> text, voice |-> voice, speed |-> speed,
              language |-> <<>>, world |-> NoWorld, did |-> d]
  /\ UNCHANGED <<system, KOKORO_VOICE, KOKORO_SPEED, requests, content>>

Main ==
  /\ phase = "running"
  /\ call.tool = "init"
  /\ \E d \in main(State) :
       /\ Apply("main", "", <<>>, 0, d)
       /\ phase' = IF d.exc = NoExc THEN "running" ELSE "crashed"

MuseSpeak ==
  /\ phase # "crashed"
  /\ \E text \in Texts, voice \in RequestVoices, speed \in RequestSpeeds :
       \E d \in muse_speak(system, KOKORO_VOICE, KOKORO_SPEED,
                           text, voice, speed, State) :
         Apply("muse_speak", text, voice, speed, d)
  /\ UNCHANGED phase

MuseCheck ==
  /\ phase # "crashed"
  /\ \E d \in muse_check(system, KOKORO_VOICE, KOKORO_SPEED, State) :
       Apply("muse_check", "", <<>>, 0, d)
  /\ UNCHANGED phase

Next == Main \/ MuseSpeak \/ MuseCheck

Spec == Init /\ [][Next]_vars

(***************************************************************************)
(* play_audio called on its own, on any file and for any behaviour of the  *)
(* players of the platform.                                                *)
(***************************************************************************)
PlayAudio ==
  /\ \E filepath \in TmpPaths \cup {MLX_OUTPUT}, w \in PlayerWorlds(system) :
       LET p == play_audio(system, filepath, w)
       IN call' = [tool |-> "play_audio", text |-> "", voice |-> <<>>,
                   speed |-> 0, language |-> <<>>, world |-> w,
                   did |-> [Effect(State) EXCEPT
                              !.play = <<p>>, !.log = p.log,
                              !.result = p.ret, !.exc = p.exc,
                              !.stage = "played"]]
  /\ UNCHANGED <<_engine, sys_modules, _kokoro_pipelines, fs, system,
                 KOKORO_VOICE, KOKORO_SPEED, phase, requests, content>>

NextPlay == PlayAudio

SpecPlay == Init /\ [][NextPlay]_vars

(***************************************************************************)
(* The registry lookups and the listing tool called on their own.          *)
(***************************************************************************)
GetLangCode ==
  /\ \E id \in LookupIds :
       call' = [tool |-> "get_lang_code", text |-> "", voice |-> id,
                speed |-> 0, language |-> <<>>, world |-> NoWorld,
                did |-> [Effect(State) EXCEPT
                           !.stage = "looked_up",
                           !.ret = [kind |-> "lang",
                                    known |-> voice_is_known(id),
                                    code |-> get_lang_code(id)]]]
  /\ UNCHANGED <<_engine, sys_modules, _kokoro_pipelines, fs, system,
                 KOKORO_VOICE, KOKORO_SPEED, phase, requests, content>>

MuseListVoices ==
  /\ \E language \in Filters :
       call' = [tool |-> "muse_list_voices", text |-> "", voice |-> <<>>,
                speed |-> 0, language |-> language, world |-> NoWorld,
                did |-> [Effect(State) EXCEPT
                           !.stage = "listed",
                           !.ret = muse_list_voices(language, KOKORO_VOICE)]]
  /\ UNCHANGED <<_engine, sys_modules, _kokoro_pipelines, fs, system,
                 KOKORO_VOICE, KOKORO_SPEED, phase, requests, content>>

NextRegistry == GetLangCode \/ MuseListVoices

SpecRegistry == Init /\ [][NextRegistry]_vars

(***************************************************************************)
(* Speak requests that overlap in time.  The engine is already detected;   *)
(* a request is cut into the steps at which it touches the audio files.    *)
(***************************************************************************)
InitOverlap ==
  /\ _engine \in {"mlx", "kokoro"}
  /\ sys_modules = {}
  /\ _kokoro_pipelines = [c \in {} |-> 0]
  /\ fs = {}
  /\ system = "Darwin"
  /\ KOKORO_VOICE = am_fenrir
  /\ KOKORO_SPEED = 10
  /\ phase = "running"
  /\ requests = NoRequests
  /\ content = NoContent
  /\ call = [tool |-> "init", text |-> "", voice |-> <<>>, speed |-> 0,
             language |-> <<>>, world |-> NoWorld,
             did |-> Effect([engine |-> NoneVal, mods |-> {},
                             pipelines |-> [c \in {} |-> 0], fs |-> {}])]

InFlight(r) == requests[r].pc \notin {"idle", "done"}

(* Request r enters with position pc and path; every request in flight    *)
(* now overlaps with it.                                                   *)
Enter(r, pc, path) ==
  [q \in Requests |->
     IF q = r
     THEN [Idle EXCEPT !.pc = pc, !.path = path,
                       !.alone = \A o \in Requests \ {r} : ~InFlight(o)]
     ELSE IF InFlight(q) THEN [requests[q] EXCEPT !.alone = FALSE]
     ELSE requests[q]]

(* A synthesis that leaves the output file as it was. *)
mlx_write_nothing(files, r) == files

(* generate_audio (lines 234-240) writes the fixed output file. *)
mlx_write(files, r) == [files EXCEPT ![MLX_OUTPUT] = r]

OverlapFixed ==
  UNCHANGED <<_engine, sys_modules, _kokoro_pipelines, system,
              KOKORO_VOICE, KOKORO_SPEED, phase, call>>

(* Lines 234-240: generate_audio raises, or writes ./audio_000.wav. *)
MlxGenerate(r) ==
  /\ _engine = "mlx"
  /\ requests[r].pc = "idle"
  /\ \/ /\ requests' = Enter(r, "done", NoPath)
        /\ UNCHANGED <<fs, content>>
     \/ /\ requests' = Enter(r, "written", MLX_OUTPUT)
        /\ fs' = fs \cup {MLX_OUTPUT}
        /\ content' = mlx_write(content, r)
  /\ OverlapFixed

(* Line 242: play_audio("./audio_000.wav"). *)
MlxPlay(r) ==
  /\ _engine = "mlx"
  /\ requests[r].pc = "written"
  /\ requests' = [requests EXCEPT ![r].pc = "done",
                                  ![r].heard = content[requests[r].path]]
  /\ UNCHANGED <<fs, content>>
  /\ OverlapFixed

(* Lines 253-272: synthesis fails or yields nothing, or the temporary file *)
(* is created.                                                             *)
KokoroCreate(r) ==
  /\ _engine = "kokoro"
  /\ requests[r].pc = "idle"
  /\ \/ /\ requests' = Enter(r, "done", NoPath)
        /\ UNCHANGED <<fs, content>>
     \/ \E t \in fresh_tmp(OverlapPaths, fs) :
          /\ requests' = Enter(r, "created", t)
          /\ fs' = fs \cup {t}
          /\ content' = [content EXCEPT ![t] = Empty]
  /\ OverlapFixed

(* Line 274: sf.write fills the file, or raises and the file stays. *)
KokoroWrite(r) ==
  /\ _engine = "kokoro"
  /\ requests[r].pc = "created"
  /\ \/ /\ requests' = [requests EXCEPT ![r].pc = "written"]
        /\ content' = [content EXCEPT ![requests[r].path] = r]
     \/ /\ requests' = [requests EXCEPT ![r].pc = "done"]
        /\ UNCHANGED content
  /\ UNCHANGED fs
  /\ OverlapFixed

(* Line 275: play_audio(tmp_path) returns, or raises and the file stays. *)
KokoroPlay(r) ==
  /\ _engine = "kokoro"
  /\ requests[r].pc = "written"
  /\ \E raised \in BOOLEAN :
       requests' = [requests EXCEPT
                      ![r].pc = IF raised THEN "done" ELSE "played",
                      ![r].heard = content[requests[r].path]]
  /\ UNCHANGED <<fs, content>>
  /\ OverlapFixed

(* Lines 278-281: os.unlink(tmp_path) removes the file, or fails. *)
KokoroUnlink(r) ==
  /\ _engine = "kokoro"
  /\ requests[r].pc = "played"
  /\ \/ /\ requests' = [requests EXCEPT ![r].pc = "done", ![r].path = NoPath,
                                        ![r].removed = content[requests[r].path]]
        /\ fs' = fs \ {requests[r].path}
        /\ content' = [content EXCEPT ![requests[r].path] = Empty]
     \/ /\ requests' = [requests EXCEPT ![r].pc = "done"]
        /\ UNCHANGED <<fs, content>>
  /\ OverlapFixed

NextOverlap ==
  \E r \in Requests :
    \/ MlxGenerate(r)
    \/ MlxPlay(r)
    \/ KokoroCreate(r)
    \/ KokoroWrite(r)
    \/ KokoroPlay(r)
    \/ KokoroUnlink(r)

SpecOverlap == InitOverlap /\ [][NextOverlap]_vars

TypeOK ==
  /\ _engine \in Engines \cup {NoneVal}
  /\ sys_modules \subseteq {"mlx_audio", "kokoro", "soundfile"}
  /\ fs \subseteq TmpPaths \cup {MLX_OUTPUT}
  /\ phase \in {"running", "crashed"}

(***************************************************************************)
(* Properties                                                              *)
(***************************************************************************)
IsSpeak == call.tool = "muse_speak"
IsPlay == call.tool = "play_audio"
did == call.did

(* The voice and speed a speak request asks for, read off the request. *)
RequestedVoice == IF call.voice = <<>> THEN KOKORO_VOICE ELSE call.voice
RequestedSpeed == IF call.speed = 0 THEN KOKORO_SPEED ELSE call.speed

(* The call met both backends absent when it probed them. *)
BothAbsent(d) ==
  d.probes = <<[module |-> "mlx_audio", exc |-> "ImportError"],
               [module |-> "kokoro", exc |-> "ImportError"]>>

(* C1: a speak request whose effective voice is not in the registry        *)
(* returns the unknown-voice message; during it the detector is not        *)
(* invoked, no backend is called, no player is launched, and the cached    *)
(* engine, the pipeline cache, the loaded modules and the files stay as    *)
(* they were.                                                              *)
C1_UnknownVoiceRejected ==
  [][(call'.tool = "muse_speak"
      /\ (IF call'.voice = <<>> THEN KOKORO_VOICE ELSE call'.voice)
            \notin ALL_VOICE_IDS)
     => /\ call'.did.ret.kind = "unknown_voice"
        /\ call'.did.exc = NoExc
        /\ call'.did.detected = <<>>
        /\ call'.did.probes = <<>>
        /\ call'.did.synth = <<>>
        /\ call'.did.play = <<>>
        /\ call'.did.created = <<>>
        /\ _engine' = _engine
        /\ sys_modules' = sys_modules
        /\ _kokoro_pipelines' = _kokoro_pipelines
        /\ fs' = fs]_vars

C1_Witness ==
  /\ IsSpeak
  /\ call.voice = <<>>
  /\ KOKORO_VOICE \notin ALL_VOICE_IDS
  /\ did.ret.kind = "unknown_voice"
  /\ _engine = NoneVal

(* C2: once the engine is cached it never changes, and every later         *)
(* detect_engine call, from any tool, returns the cached value without     *)
(* importing a backend.                                                    *)
C2_DetectionWriteOnce ==
  [][_engine # NoneVal
     => /\ _engine' = _engine
        /\ call'.did.probes = <<>>
        /\ \A i \in DOMAIN call'.did.detected :
              call'.did.detected[i] = _engine]_vars

C2_Witness ==
  /\ _engine = "none"
  /\ IsSpeak
  /\ did.detected = <<"none", "none">>
  /\ did.probes = <<>>

(* C3: the speak tool never raises: whatever its collaborators do, no      *)
(* exception leaves muse_speak.                                            *)
C3_SpeakNeverRaises == IsSpeak => did.exc = NoExc

(* The synthesis of the request produced its audio file. *)
SynthesisSucceeded(d) ==
  /\ Len(d.synth) = 1
  /\ d.stage \in {"played", "play", "unlink"}
  /\ d.synth[1].backend = "kokoro" => d.synth[1].chunks = "some" /\ Len(d.created) = 1

(* The points at which a request ends when its synthesis fails. *)
SynthesisFailures ==
  {"no_engine", "import_mlx_audio", "import_soundfile", "import_kokoro",
   "construct", "synthesis", "empty", "mktemp", "write"}

(* C4: a speak request reports success only if its synthesis succeeded and *)
(* the playback of the resulting file returned true; playback is invoked   *)
(* only after synthesis succeeded; a failure at either stage is reported   *)
(* as a failure.                                                           *)
C4_SuccessNeedsBoth ==
  IsSpeak =>
    /\ did.ret.kind = "spoke"
         => /\ SynthesisSucceeded(did)
            /\ Len(did.play) = 1
            /\ did.play[1].ret
    /\ did.play # <<>> => SynthesisSucceeded(did)
    /\ did.stage \in SynthesisFailures => did.ret.kind = "failed"
    /\ (did.play # <<>> /\ ~did.play[1].ret) => did.ret.kind = "failed"

C4_Witness ==
  /\ IsSpeak
  /\ SynthesisSucceeded(did)
  /\ Len(did.play) = 1
  /\ ~did.play[1].ret
  /\ did.ret.kind = "failed"

(* C5: a detection that finds both backends absent caches "none"; with     *)
(* "none" cached, muse_check reports engine "none", status "no engine      *)
(* found" and the install help, and a speak request with a valid voice     *)
(* returns the failure message without raising, without a synthesis call   *)
(* and without a player.                                                   *)
C5_NoEngine ==
  /\ BothAbsent(did) => _engine = "none"
  /\ (_engine = "none" /\ call.tool = "muse_check")
       => /\ did.exc = NoExc
          /\ did.ret.engine = "none"
          /\ did.ret.status = "no engine found"
          /\ "help" \in DOMAIN did.ret
  /\ (_engine = "none" /\ IsSpeak /\ RequestedVoice \in ALL_VOICE_IDS)
       => /\ did.exc = NoExc
          /\ did.ret.kind = "failed"
          /\ did.synth = <<>>
          /\ did.play = <<>>
          /\ did.created = <<>>

C5_Witness ==
  /\ IsSpeak
  /\ BothAbsent(did)
  /\ _engine = "none"
  /\ RequestedVoice \in ALL_VOICE_IDS
  /\ did.ret.kind = "failed"

(* C6: the speed handed to a backend is the requested speed (the default   *)
(* speed when 0 is requested) clamped to [0.5, 2.0]; 0.1 becomes 0.5 and   *)
(* 5.0 becomes 2.0.                                                        *)
C6_SpeedClamped ==
  IsSpeak =>
    \A i \in DOMAIN did.synth :
      LET s == did.synth[i].speed
      IN /\ 5 <= s /\ s <= 20
         /\ s = (IF RequestedSpeed < 5 THEN 5
                 ELSE IF RequestedSpeed > 20 THEN 20 ELSE RequestedSpeed)
         /\ call.speed = 1 => s = 5
         /\ call.speed = 50 => s = 20

C6_Witness ==
  /\ IsSpeak
  /\ call.speed = 1
  /\ Len(did.synth) = 1
  /\ did.synth[1].speed = 5

(* The candidates of the Linux branch whose binary is not absent. *)
PresentCandidates ==
  {i \in DOMAIN LINUX_PLAYERS : call.world[LINUX_PLAYERS[i]] # "missing"}
FirstPresent ==
  CHOOSE i \in PresentCandidates : \A j \in PresentCandidates : i <= j

(* C7 as stated: on the fallback-chain platform play_audio succeeds if and *)
(* only if some candidate exists and exits successfully, the winner being  *)
(* the first such candidate.                                               *)
C7_AnyWorkingCandidateWins ==
  (IsPlay /\ system = "Linux") =>
    (did.play[1].ret <=>
       \E i \in DOMAIN LINUX_PLAYERS : call.world[LINUX_PLAYERS[i]] = "zero")

(* C7, amended: the candidates are tried in the order aplay, paplay,       *)
(* ffplay; absent binaries are skipped; the first candidate whose binary   *)
(* is not absent is the only one run, and play_audio succeeds if and only  *)
(* if that candidate exits with status zero; it fails when that candidate  *)
(* fails and when all three are absent.                                    *)
C7_FirstPresentCandidateDecides ==
  (IsPlay /\ system = "Linux") =>
    LET p == did.play[1]
        last == IF PresentCandidates = {} THEN Len(LINUX_PLAYERS) ELSE FirstPresent
    IN /\ did.exc = NoExc
       /\ Len(p.tried) = last
       /\ \A i \in 1..last :
             /\ p.tried[i].cmd = LINUX_PLAYERS[i]
             /\ p.tried[i].outcome = call.world[LINUX_PLAYERS[i]]
       /\ p.ret <=> (PresentCandidates # {}
                     /\ call.world[LINUX_PLAYERS[FirstPresent]] = "zero")
       /\ PresentCandidates = {} => p.log = <<"No audio player found">>

C7_Witness ==
  /\ IsPlay
  /\ system = "Linux"
  /\ call.world["aplay"] = "missing"
  /\ call.world["paplay"] = "zero"
  /\ did.play[1].ret
  /\ Len(did.play[1].tried) = 2

(* C8: on every platform and for every behaviour of the players,           *)
(* play_audio returns a boolean and raises nothing; it returns true only   *)
(* if the last process it ran exited with status zero; on Darwin and       *)
(* Windows it returns true exactly when the single player exits with zero. *)
C8_PlayAudioTotal ==
  IsPlay =>
    LET p == did.play[1]
    IN /\ p.exc = NoExc
       /\ p.ret \in BOOLEAN
       /\ p.ret => /\ p.tried # <<>>
                   /\ p.tried[Len(p.tried)].outcome = "zero"
                   /\ Launched(p) # <<>>
       /\ system \in {"Darwin", "Windows"}
            => /\ Len(p.tried) = 1
               /\ p.tried[1].cmd \in PlayersOf(system)
               /\ p.ret <=> call.world[p.tried[1].cmd] = "zero"

C8_Witness ==
  /\ IsPlay
  /\ system = "Darwin"
  /\ call.world["afplay"] = "launchfail"
  /\ ~did.play[1].ret
  /\ did.play[1].exc = NoExc

(* The portable synthesis of the request ran to its end; n tells whether   *)
(* it yielded any chunk.                                                   *)
KokoroYielded(n) ==
  /\ IsSpeak
  /\ Len(did.synth) = 1
  /\ did.synth[1].backend = "kokoro"
  /\ did.synth[1].chunks = n

(* C9: a portable synthesis that yields zero chunks makes the request      *)
(* return the failure message; no temporary file is created and no player  *)
(* is launched.                                                            *)
C9_ZeroChunksFails ==
  KokoroYielded("zero") =>
    /\ did.exc = NoExc
    /\ did.ret.kind = "failed"
    /\ did.created = <<>>
    /\ did.play = <<>>
    /\ did.unlink = <<>>

C9_Witness ==
  /\ KokoroYielded("zero")
  /\ did.ret.kind = "failed"
  /\ _engine = "kokoro"

(* C10: on the portable path, once playback of the temporary file has      *)
(* been attempted, its removal is attempted before the request returns,    *)
(* whether playback succeeded or not; a removal error is swallowed and the *)
(* result of the request is the result of playback.                        *)
C10_CleanupAfterPlayback ==
  (IsSpeak /\ did.play # <<>> /\ did.synth[1].backend = "kokoro") =>
    /\ Len(did.created) = 1
    /\ did.play[1].path = did.created[1]
    /\ Len(did.unlink) = 1
    /\ did.unlink[1].path = did.created[1]
    /\ did.exc = NoExc
    /\ did.result = did.play[1].ret
    /\ did.ret.kind = "spoke" <=> did.play[1].ret
    /\ did.unlink[1].exc = NoExc => did.created[1] \notin fs

C10_Witness ==
  /\ IsSpeak
  /\ did.play # <<>>
  /\ did.synth[1].backend = "kokoro"
  /\ did.play[1].ret
  /\ did.unlink[1].exc # NoExc
  /\ did.ret.kind = "spoke"
  /\ did.created[1] \in fs

(* C11 as stated: after a speak request has returned, no audio file the    *)
(* request created is left, on either path, unless its removal was         *)
(* attempted and failed.                                                   *)
C11_NoArtifactRemains ==
  IsSpeak =>
    /\ \A i \in DOMAIN did.created :
         did.created[i] \in fs
           => (did.unlink # <<>> /\ did.unlink[1].exc # NoExc)
    /\ (did.synth # <<>> /\ did.synth[1].backend = "mlx"
        /\ did.stage = "played")
         => MLX_OUTPUT \notin fs

(* C12: a detection that probes imports mlx_audio first and kokoro only    *)
(* after mlx_audio was absent; it yields mlx exactly when mlx_audio loads, *)
(* kokoro exactly when mlx_audio is absent and kokoro loads, none exactly  *)
(* when both are absent.                                                   *)
C12_ProbeOrder ==
  did.probes # <<>> =>
    LET p == did.probes
    IN /\ p[1].module = "mlx_audio"
       /\ Len(p) <= 2
       /\ Len(p) = 2 <=> p[1].exc = "ImportError"
       /\ Len(p) = 2 => p[2].module = "kokoro"
       /\ _engine = "mlx" <=> p[1].exc = NoExc
       /\ _engine = "kokoro"
            <=> (Len(p) = 2 /\ p[1].exc = "ImportError" /\ p[2].exc = NoExc)
       /\ _engine = "none" <=> BothAbsent(did)
       /\ _engine # NoneVal => did.detected # <<>> /\ did.detected[1] = _engine

C12_Witness ==
  /\ Len(did.probes) = 2
  /\ did.probes[1].exc = "ImportError"
  /\ did.probes[2].exc = NoExc
  /\ _engine = "kokoro"

(* C13: with the fast-native engine active, a speak request with a valid   *)
(* voice makes exactly one synthesis call, with the request's text, its    *)
(* effective voice and its clamped speed; when the call succeeds there is  *)
(* exactly one playback, of the fixed output path; when it raises there is *)
(* no playback.                                                            *)
C13_MlxOneSynthesisOnePlayback ==
  (IsSpeak /\ _engine = "mlx" /\ RequestedVoice \in ALL_VOICE_IDS) =>
    /\ Len(did.synth) = 1
    /\ did.synth[1].backend = "mlx"
    /\ did.synth[1].text = call.text
    /\ did.synth[1].voice = RequestedVoice
    /\ did.synth[1].speed = (IF RequestedSpeed < 5 THEN 5
                            ELSE IF RequestedSpeed > 20 THEN 20
                            ELSE RequestedSpeed)
    /\ did.stage \in {"played", "synthesis"}
    /\ did.stage = "played"
         => /\ Len(did.play) = 1
            /\ did.play[1].path = [kind |-> "./audio_000.wav", n |-> 0]
    /\ did.stage = "synthesis" => did.play = <<>>
    /\ did.created = <<>>

C13_Witness ==
  /\ IsSpeak
  /\ _engine = "mlx"
  /\ call.voice = <<>>
  /\ did.stage = "played"
  /\ did.synth[1].voice = am_fenrir
  /\ Len(did.play) = 1
  /\ did.ret.kind = "spoke"

(* C19: a play_audio call starts at most one player process; on the        *)
(* fallback-chain platform a candidate is run only if the binary of every  *)
(* earlier candidate was absent; a speak request calls play_audio at most  *)
(* once.                                                                   *)
C19_AtMostOnePlayer ==
  (IsSpeak \/ IsPlay) =>
    /\ Len(did.play) <= 1
    /\ \A k \in DOMAIN did.play :
         LET p == did.play[k]
         IN /\ Len(Launched(p)) <= 1
            /\ \A i \in DOMAIN p.tried :
                 \A j \in 1..(i - 1) : p.tried[j].outcome = "missing"

C19_Witness ==
  /\ IsSpeak
  /\ system = "Linux"
  /\ Len(did.play) = 1
  /\ Len(did.play[1].tried) = 2
  /\ did.play[1].tried[1].outcome = "missing"
  /\ did.play[1].tried[2].outcome = "nonzero"
  /\ Len(Launched(did.play[1])) = 1

(* C14: over any sequence of calls the pipeline cache keeps every entry it *)
(* has, unchanged; a call adds at most the entry of the language code of   *)
(* its voice; a pipeline is constructed only for a language code without   *)
(* an entry, and a failed construction adds nothing; a portable synthesis  *)
(* calls the pipeline stored under the language code of its voice (for a   *)
(* registry voice, the first character of its id).                         *)
C14_PipelineCache ==
  [][LET pl   == _kokoro_pipelines
         pl2  == _kokoro_pipelines'
         v    == IF call'.voice = <<>> THEN KOKORO_VOICE ELSE call'.voice
         d    == call'.did
     IN /\ \A c \in DOMAIN pl : c \in DOMAIN pl2 /\ pl2[c] = pl[c]
        /\ \A c \in DOMAIN pl2 \ DOMAIN pl :
             call'.tool = "muse_speak" /\ c = v[1]
        /\ \A c1, c2 \in DOMAIN pl2 : pl2[c1] = pl2[c2] => c1 = c2
        /\ d.stage = "construct" => (pl2 = pl /\ v[1] \notin DOMAIN pl)
        /\ \A i \in DOMAIN d.synth :
             d.synth[i].backend = "kokoro"
               => /\ d.synth[i].lang = v[1]
                  /\ v[1] \in DOMAIN pl2
                  /\ d.synth[i].pipeline = pl2[v[1]]]_vars

C14_Witness ==
  /\ IsSpeak
  /\ Cardinality(DOMAIN _kokoro_pipelines) = 2
  /\ did.stage = "played"
  /\ did.synth[1].backend = "kokoro"
  /\ did.synth[1].pipeline = 1

(* The prefixes of the language code table that begin the id. *)
MatchingCodes(id) ==
  {LANG_CODES[i][1] : i \in
     {i \in DOMAIN LANG_CODES :
        \E k \in DOMAIN LANG_CODES[i][2] :
          Len(id) >= 3 /\ <<id[1], id[2], id[3]>> = LANG_CODES[i][2][k]}}

(* C17: every registry id is valid and its language code is non-empty and  *)
(* is the code whose prefix list holds the id's first three characters     *)
(* (which is the id's first character); an id whose first three            *)
(* characters are in no prefix list gets the default code "a".             *)
C17_LangCode ==
  call.tool = "get_lang_code" =>
    LET id == call.voice
        r  == did.ret
    IN /\ id \in ALL_VOICE_IDS
            => /\ r.known
               /\ r.code # ""
               /\ MatchingCodes(id) = {r.code}
               /\ r.code = id[1]
       /\ MatchingCodes(id) = {} => r.code = "a"

C17_Witness ==
  /\ call.tool = "get_lang_code"
  /\ call.voice = bf_emma
  /\ did.ret.known
  /\ did.ret.code = "b"

(* The groups (by position in VOICES) each filter of the model selects.    *)
ExpectedGroups(f) ==
  CASE
    f = <<>> -> {1, 2, 3, 4, 5, 6, 7, 8, 9, 10, 11}
    [] f = <<"m", "a", "n", "d", "a", "r", "i", "n">> -> {11}
    [] f = <<"M", "A", "N", "D", "A", "R", "I", "N">> -> {11}
    [] f = <<"B", "r", "i", "t", "i", "s", "h">> -> {3, 4}
    [] f = <<"e", "n", "g", "l", "i", "s", "h">> -> {1, 2, 3, 4}
    [] f = <<"m", "a", "l", "e">> -> {1, 2, 3, 4}
    [] f = <<"(", "M">> -> {2, 4}
    [] f = <<"x", "y", "z">> -> {}
    [] f = <<"f", "r">> -> {6}
    [] f = <<"h", " ", "(">> -> {1, 2, 3, 4}
    [] f = <<"p", "a", "n", "e", "s">> -> {9}
    [] f = <<"S", "p", "a", "n", "i", "s", "h", " ">> -> {}

(* The group names a listing shows, in order. *)
ShownGroups(r) ==
  LET gl == SelectSeq(r.lines, LAMBDA l : l.t = "group")
  IN [i \in DOMAIN gl |-> gl[i].id]
ShownVoices(r) ==
  {r.lines[i].id : i \in {i \in DOMAIN r.lines : r.lines[i].t = "voice"}}

(* C18: muse_list_voices lists exactly the groups whose name contains the  *)
(* filter, ignoring case (all groups for the empty filter), each with all  *)
(* its voices; with no such group it returns the guidance message; the     *)
(* total of a listing is the size of the whole registry (54) whatever the  *)
(* filter.                                                                 *)
C18_ListVoices ==
  call.tool = "muse_list_voices" =>
    LET r   == did.ret
        exp == ExpectedGroups(call.language)
        sel == SelectSeq([k \in DOMAIN VOICES |-> k], LAMBDA k : k \in exp)
    IN /\ exp = {} <=> r.kind = "no_match"
       /\ exp # {} =>
            /\ r.kind = "listing"
            /\ ShownGroups(r) = [i \in DOMAIN sel |-> VOICES[sel[i]].group]
            /\ ShownVoices(r) =
                 UNION {{VOICES[k].voices[i][1] : i \in DOMAIN VOICES[k].voices}
                          : k \in exp}
            /\ \E i \in DOMAIN r.lines :
                 /\ r.lines[i].t = "total"
                 /\ r.lines[i].voices = 54
                 /\ r.lines[i].voices = Cardinality(ALL_VOICE_IDS)
       /\ call.language = <<>> => exp = DOMAIN VOICES

C18_Witness ==
  /\ call.tool = "muse_list_voices"
  /\ call.language = <<"m", "a", "n", "d", "a", "r", "i", "n">>
  /\ did.ret.kind = "listing"
  /\ Len(ShownGroups(did.ret)) = 1
  /\ Cardinality(ShownVoices(did.ret)) = 8
(* C15: every fast-native request's audio file is the one fixed path, and *)
(* a fast-native request that overlapped with no other request plays the   *)
(* audio its own synthesis wrote.  (That overlapping requests can play     *)
(* each other's audio is the reachable state C15_Witness.)                 *)
C15_MlxSharedPath ==
  _engine = "mlx" =>
    \A r \in Requests :
      /\ requests[r].pc = "written" => requests[r].path = MLX_OUTPUT
      /\ requests[r].heard # NotYet => requests[r].path = MLX_OUTPUT
      /\ (requests[r].heard # NotYet /\ requests[r].alone)
            => requests[r].heard = r

C15_Witness ==
  /\ _engine = "mlx"
  /\ \E r \in Requests, o \in Requests :
       /\ o # r
       /\ requests[r].pc = "done"
       /\ ~requests[r].alone
       /\ requests[r].heard = o

(* C16: on the portable path the existing files of two requests have       *)
(* different paths, and a request plays and deletes only the file it wrote *)
(* itself, overlapping or not.                                             *)
C16_KokoroOwnFile ==
  _engine = "kokoro" =>
    /\ \A r, o \in Requests :
         (r # o /\ requests[r].path \in fs /\ requests[o].path \in fs)
            => requests[r].path # requests[o].path
    /\ \A r \in Requests :
         /\ requests[r].pc \in {"written", "played"}
              => content[requests[r].path] = r
         /\ requests[r].heard \in {NotYet, r}
         /\ requests[r].removed \in {NotYet, r}

C16_Witness ==
  /\ _engine = "kokoro"
  /\ \E r \in Requests, o \in Requests :
       /\ o # r
       /\ requests[r].pc = "played" /\ requests[r].heard = r
       /\ ~requests[r].alone
       /\ requests[o].pc = "done" /\ requests[o].removed = o
       /\ ~requests[o].alone
====
